---- MODULE Spec2Model ----
(***************************************************************************)
(* Dungeon generation of the roguelike (src/src/map.rs): make_map and its  *)
(* helpers create_room, create_h_tunnel, create_v_tunnel, Rect,            *)
(* from_dungeon_level, place_objects and is_blocked.                       *)
(*                                                                         *)
(* The Map (Vec<Vec<Tile>>, MAP_WIDTH columns of MAP_HEIGHT tiles) is held *)
(* as the set of coordinates <<x, y>> whose tile is Tile::empty(), that is *)
(* map[x][y].blocked = false; every other in-range tile is Tile::wall().   *)
(* Random draws (thread_rng, rand::random) are nondeterministic choices    *)
(* from subsets of the ranges the code draws from.                         *)
(***************************************************************************)
EXTENDS Integers, Sequences, FiniteSets

VARIABLES
    pc,             \* position in make_map / in the called pure function
    map,            \* passable tiles of the Map under construction
    objects,        \* the caller's Vec<Object>; objects[1] is objects[PLAYER]
    rooms,          \* the accepted rooms, in order of acceptance
    attempt,        \* iterations of `for _ in 0..MAX_ROOMS` already finished
    new_room,       \* the Rect proposed in the current / last iteration
    monsters_left,  \* iterations left of `for _ in 0..num_monsters`
    items_left,     \* iterations left of `for _ in 0..num_items`
    level,          \* the dungeon level argument
    touched,        \* coordinates the last step indexed the Map with
    sample,         \* last spot sampled by place_objects and whether blocked
    args,           \* arguments of a called pure function
    ret             \* value returned by a called pure function

vars == <<pc, map, objects, rooms, attempt, new_room, monsters_left,
          items_left, level, touched, sample, args, ret>>

(***************************************************************************)
(* Program constants.                                                      *)
(***************************************************************************)
MAP_WIDTH == 80
MAP_HEIGHT == 43
ROOM_MAX_SIZE == 10
ROOM_MIN_SIZE == 6
MAX_ROOMS == 30

\* objects[PLAYER] of the 0-based Vec is element 1 of the 1-based sequence
PLAYER == 1

Min(a, b) == IF a <= b THEN a ELSE b
Max(a, b) == IF a >= b THEN a ELSE b

(***************************************************************************)
(* Rect                                                                    *)
(***************************************************************************)
RectNew(x, y, w, h) == [x1 |-> x, y1 |-> y, x2 |-> x + w, y2 |-> y + h]

center(r) == <<(r.x1 + r.x2) \div 2, (r.y1 + r.y2) \div 2>>

\* mutant: the exclusive-edge test, which lets rooms share an edge
intersects_with_exclusive(self, other) ==
    /\ self.x1 < other.x2
    /\ self.x2 > other.x1
    /\ self.y1 < other.y2
    /\ self.y2 > other.y1

intersects_with(self, other) ==
    /\ self.x1 <= other.x2
    /\ self.x2 >= other.x1
    /\ self.y1 <= other.y2
    /\ self.y2 >= other.y1

(***************************************************************************)
(* The Map and the tiles its carving functions index.                      *)
(***************************************************************************)
\* a valid index pair of vec![vec![..; MAP_HEIGHT]; MAP_WIDTH]
InMap(c) == c[1] \in 0..(MAP_WIDTH - 1) /\ c[2] \in 0..(MAP_HEIGHT - 1)

create_room(room) ==
    {<<x, y>> : x \in (room.x1 + 1)..(room.x2 - 1),
                y \in (room.y1 + 1)..(room.y2 - 1)}

\* mutant: no min() and max(), nothing is carved when x1 > x2
create_h_tunnel_unordered(x1, x2, y) == {<<x, y>> : x \in x1..x2}

create_h_tunnel(x1, x2, y) == {<<x, y>> : x \in Min(x1, x2)..Max(x1, x2)}

create_v_tunnel(y1, y2, x) == {<<x, y>> : y \in Min(y1, y2)..Max(y1, y2)}

\* mutant: only the map tile is tested
is_blocked_tile_only(x, y, m, objs) == <<x, y>> \notin m

\* mutant: any object on the tile blocks, whatever its flag
is_blocked_any_object(x, y, m, objs) ==
    \/ <<x, y>> \notin m
    \/ \E i \in 1..Len(objs) : <<objs[i].x, objs[i].y>> = <<x, y>>

is_blocked(x, y, m, objs) ==
    \/ <<x, y>> \notin m
    \/ \E i \in 1..Len(objs) :
          objs[i].blocks /\ <<objs[i].x, objs[i].y>> = <<x, y>>

(***************************************************************************)
(* Level-scaled tables                                                     *)
(***************************************************************************)
Transition(l, v) == [level |-> l, value |-> v]

\* mutant: without rev(), the first entry with level >= its threshold
RECURSIVE FindFwd(_, _, _)
FindFwd(table, lvl, i) ==
    IF i > Len(table) THEN 0
    ELSE IF lvl >= table[i].level THEN table[i].value
    ELSE FindFwd(table, lvl, i + 1)

from_dungeon_level_first(table, lvl) == FindFwd(table, lvl, 1)

RECURSIVE FindRev(_, _, _)
FindRev(table, lvl, i) ==
    IF i = 0 THEN 0
    ELSE IF lvl >= table[i].level THEN table[i].value
    ELSE FindRev(table, lvl, i - 1)

from_dungeon_level(table, lvl) == FindRev(table, lvl, Len(table))

max_monsters_table == <<Transition(1, 2), Transition(4, 3), Transition(6, 5)>>
troll_chance_table == <<Transition(3, 15), Transition(5, 30), Transition(7, 60)>>
max_items_table == <<Transition(1, 1), Transition(4, 2)>>

monster_choices == <<"orc", "troll">>
monster_weights(lvl) == <<80, from_dungeon_level(troll_chance_table, lvl)>>

item_choices == <<"Heal", "Lightning", "Fireball", "Confuse", "Sword", "Shield">>
item_weights(lvl) ==
    <<35,
      from_dungeon_level(<<Transition(4, 25)>>, lvl),
      from_dungeon_level(<<Transition(6, 25)>>, lvl),
      from_dungeon_level(<<Transition(2, 10)>>, lvl),
      from_dungeon_level(<<Transition(4, 5)>>, lvl),
      from_dungeon_level(<<Transition(8, 15)>>, lvl)>>

\* the indices a WeightedIndex over `weights` can sample
WeightedIndex(weights) == {i \in 1..Len(weights) : weights[i] > 0}

(***************************************************************************)
(* Objects                                                                 *)
(***************************************************************************)
ObjectNew(x, y, char, name, blocks) ==
    [x |-> x, y |-> y, char |-> char, name |-> name, blocks |-> blocks,
     alive |-> FALSE, always_visible |-> FALSE,
     fighter |-> "None", ai |-> "None", item |-> "None", equipment |-> "None"]

Fighter(max_hp, defense, power, xp) ==
    [base_max_hp |-> max_hp, hp |-> max_hp, base_defense |-> defense,
     base_power |-> power, xp |-> xp, on_death |-> "Monster"]

Monster(choice, x, y) ==
    IF choice = "orc"
    THEN [ObjectNew(x, y, "o", "orc", TRUE) EXCEPT
             !.fighter = Fighter(20, 0, 4, 35), !.ai = "Basic", !.alive = TRUE]
    ELSE [ObjectNew(x, y, "T", "troll", TRUE) EXCEPT
             !.fighter = Fighter(30, 2, 8, 100), !.ai = "Basic", !.alive = TRUE]

Equipment(slot, power_bonus, defense_bonus) ==
    [equipped |-> FALSE, slot |-> slot, max_hp_bonus |-> 0,
     power_bonus |-> power_bonus, defense_bonus |-> defense_bonus]

ItemObject(choice, x, y) ==
    LET o == CASE choice = "Heal" -> ObjectNew(x, y, "!", "healing potion", FALSE)
               [] choice = "Lightning" ->
                      ObjectNew(x, y, "#", "scroll of lightning bolt", FALSE)
               [] choice = "Fireball" ->
                      ObjectNew(x, y, "#", "scroll of fireball", FALSE)
               [] choice = "Confuse" ->
                      ObjectNew(x, y, "#", "scroll of confusion", FALSE)
               [] choice = "Sword" -> ObjectNew(x, y, "/", "sword", FALSE)
               [] choice = "Shield" -> ObjectNew(x, y, "[", "shield", FALSE)
        e == CASE choice = "Sword" -> Equipment("RightHand", 3, 0)
               [] choice = "Shield" -> Equipment("LeftHand", 0, 1)
               [] OTHER -> "None"
    IN  [o EXCEPT !.item = choice, !.equipment = e, !.always_visible = TRUE]

Stairs(x, y) ==
    [ObjectNew(x, y, "<", "stairs", FALSE) EXCEPT !.always_visible = TRUE]

set_pos(o, x, y) == [o EXCEPT !.x = x, !.y = y]

(***************************************************************************)
(* Bounds of the model: the random draws are taken from subsets of the     *)
(* ranges the code draws from.                                             *)
(***************************************************************************)
\* make_map is called with level 0..MaxLevel
MaxLevel == 1
\* the first MaxAttempts iterations of `for _ in 0..MAX_ROOMS` draw any room
\* of RoomDraws; the rooms drawn by the later ones intersect accepted rooms
MaxAttempts == 3
\* num_monsters and num_items are drawn so that objects holds at most
\* MaxObjects entries when place_objects returns
MaxObjects == 2

\* gen_range(ROOM_MIN_SIZE..(ROOM_MAX_SIZE + 1))
SizeRange == ROOM_MIN_SIZE..ROOM_MAX_SIZE
\* mutant: the inclusive range 0..=(MAP_WIDTH - w)
XRange_inclusive(w) == 0..(MAP_WIDTH - w)

\* gen_range(0..(MAP_WIDTH - w)) and gen_range(0..(MAP_HEIGHT - h))
XRange(w) == 0..(MAP_WIDTH - w - 1)
YRange(h) == 0..(MAP_HEIGHT - h - 1)
\* gen_range((room.x1 + 1)..room.x2) and gen_range((room.y1 + 1)..room.y2)
SpotXRange(room) == (room.x1 + 1)..(room.x2 - 1)
SpotYRange(room) == (room.y1 + 1)..(room.y2 - 1)

Least(range) == CHOOSE v \in range : \A z \in range : v <= z
Greatest(range) == CHOOSE v \in range : \A z \in range : z <= v

\* the draws <<w, h, x, y>> of one iteration: the least and the greatest
\* room at the origin, rooms that touch the least one on its right and
\* lower edge, a room one tile clear of it, and the least and the greatest
\* room in the far corner
RoomDraws ==
    LET lo == Least(SizeRange)
        hi == Greatest(SizeRange)
        picks == {<<lo, lo, 0, 0>>,
                  <<hi, hi, 0, 0>>,
                  <<lo, hi, lo, 0>>,
                  <<hi, lo, lo + 1, 0>>,
                  <<lo, lo, 0, lo>>,
                  <<lo, lo, Greatest(XRange(lo)), Greatest(YRange(lo))>>,
                  <<hi, hi, Greatest(XRange(hi)), Greatest(YRange(hi))>>}
    IN  {d \in picks : /\ d[1] \in SizeRange
                       /\ d[2] \in SizeRange
                       /\ d[3] \in XRange(d[1])
                       /\ d[4] \in YRange(d[2])}
DrawnRoom(d) == RectNew(d[3], d[4], d[1], d[2])

\* the spots drawn in a room: the room's center and the far corner of the
\* sampled square
SpotDraws(room) ==
    LET picks == {center(room),
                  <<Greatest(SpotXRange(room)), Greatest(SpotYRange(room))>>}
    IN  {p \in picks : p[1] \in SpotXRange(room) /\ p[2] \in SpotYRange(room)}
\* counts gen_range(0..(max + 1)) can give within MaxObjects
CountDraws(max, objs) == {n \in 0..max : n = 0 \/ Len(objs) + n <= MaxObjects}

\* the caller's objects on entry: the player first, where the previous
\* level's stairs were, then the rest of that level
Player(x, y) ==
    [ObjectNew(x, y, "@", "player", TRUE) EXCEPT
        !.alive = TRUE,
        !.fighter = [Fighter(100, 1, 2, 0) EXCEPT !.on_death = "Player"]]
EntryObjects ==
    {<<Player(3, 3), Monster("orc", 5, 5), Stairs(3, 3)>>}

NoRoom == RectNew(0, 0, 0, 0)
NoSample == [x |-> 0, y |-> 0, blocked |-> FALSE]

(***************************************************************************)
(* make_map                                                                *)
(***************************************************************************)
Init ==
    /\ pc = "start"
    /\ map = {}
    /\ objects \in EntryObjects
    /\ rooms = <<>>
    /\ attempt = 0
    /\ new_room = NoRoom
    /\ monsters_left = 0
    /\ items_left = 0
    /\ level \in 0..MaxLevel
    /\ touched = {}
    /\ sample = NoSample
    /\ args = <<>>
    /\ ret = 0

\* mutant: objects is not truncated
Truncate_nothing ==
    /\ pc = "start"
    /\ rooms' = <<>>
    /\ pc' = "loop"
    /\ UNCHANGED <<map, objects, attempt, new_room, monsters_left, items_left,
                   level, touched, sample, args, ret>>

\* lines 25-30: objects.truncate(1), rooms = vec![]
Truncate ==
    /\ pc = "start"
    /\ objects' = SubSeq(objects, 1, 1)
    /\ rooms' = <<>>
    /\ pc' = "loop"
    /\ UNCHANGED <<map, attempt, new_room, monsters_left, items_left, level,
                   touched, sample, args, ret>>

\* mutant: the new room is tested against itself too
failed_with_itself(room, others) ==
    \E i \in 1..(Len(others) + 1) : intersects_with(room, Append(others, room)[i])

failed(room, others) ==
    \E i \in 1..Len(others) : intersects_with(room, others[i])

\* lines 32-47 with failed = true: the iteration ends
RejectRoom ==
    /\ pc = "loop"
    /\ attempt < MAX_ROOMS
    /\ attempt < MaxAttempts
    /\ \E d \in RoomDraws : failed(DrawnRoom(d), rooms)
    /\ attempt' = attempt + 1
    /\ UNCHANGED <<pc, map, objects, rooms, new_room, monsters_left, items_left,
                   level, touched, sample, args, ret>>

\* lines 32-47 with failed = true in every iteration that is left: each of
\* them changes nothing but the loop counter
RejectRemaining ==
    /\ pc = "loop"
    /\ attempt < MAX_ROOMS
    /\ \E d \in RoomDraws : failed(DrawnRoom(d), rooms)
    /\ attempt' = MAX_ROOMS
    /\ UNCHANGED <<pc, map, objects, rooms, new_room, monsters_left, items_left,
                   level, touched, sample, args, ret>>

\* lines 32-54 with failed = false: create_room, then place_objects up to
\* its first loop (lines 166-203)
AcceptRoom ==
    /\ pc = "loop"
    /\ attempt < MAX_ROOMS
    /\ attempt < MaxAttempts
    /\ \E d \in RoomDraws :
         LET room == DrawnRoom(d) IN
         /\ ~failed(room, rooms)
         /\ new_room' = room
         /\ touched' = create_room(room)
         /\ IF \A c \in create_room(room) : InMap(c)
            THEN /\ map' = map \cup create_room(room)
                 /\ pc' = "monsters"
                 /\ monsters_left' \in
                      CountDraws(from_dungeon_level(max_monsters_table, level),
                                 objects)
            ELSE /\ pc' = "panic_index"
                 /\ UNCHANGED <<map, monsters_left>>
    /\ UNCHANGED <<objects, rooms, attempt, items_left, level, sample, args, ret>>

\* lines 205-247, one iteration
PlaceMonster ==
    /\ pc = "monsters"
    /\ monsters_left > 0
    /\ \E p \in SpotDraws(new_room) :
         /\ touched' = {p}
         /\ IF ~InMap(p)
            THEN /\ pc' = "panic_index"
                 /\ UNCHANGED <<objects, monsters_left, sample>>
            ELSE /\ sample' = [x |-> p[1], y |-> p[2],
                               blocked |-> is_blocked(p[1], p[2], map, objects)]
                 /\ monsters_left' = monsters_left - 1
                 /\ pc' = pc
                 /\ IF is_blocked(p[1], p[2], map, objects)
                    THEN objects' = objects
                    ELSE \E i \in WeightedIndex(monster_weights(level)) :
                            objects' = Append(objects,
                                              Monster(monster_choices[i], p[1], p[2]))
    /\ UNCHANGED <<map, rooms, attempt, new_room, items_left, level, args, ret>>

\* lines 249-305: the first loop is over, num_items is drawn
MonstersDone ==
    /\ pc = "monsters"
    /\ monsters_left = 0
    /\ items_left' \in
         CountDraws(from_dungeon_level(max_items_table, level), objects)
    /\ pc' = "items"
    /\ touched' = {}
    /\ UNCHANGED <<map, objects, rooms, attempt, new_room, monsters_left, level,
                   sample, args, ret>>

\* lines 307-374, one iteration
PlaceItem ==
    /\ pc = "items"
    /\ items_left > 0
    /\ \E p \in SpotDraws(new_room) :
         /\ touched' = {p}
         /\ IF ~InMap(p)
            THEN /\ pc' = "panic_index"
                 /\ UNCHANGED <<objects, items_left, sample>>
            ELSE /\ sample' = [x |-> p[1], y |-> p[2],
                               blocked |-> is_blocked(p[1], p[2], map, objects)]
                 /\ items_left' = items_left - 1
                 /\ pc' = pc
                 /\ IF is_blocked(p[1], p[2], map, objects)
                    THEN objects' = objects
                    ELSE \E i \in WeightedIndex(item_weights(level)) :
                            objects' = Append(objects,
                                              ItemObject(item_choices[i], p[1], p[2]))
    /\ UNCHANGED <<map, rooms, attempt, new_room, monsters_left, level, args, ret>>

\* lines 56-61 and 80-81: the first room, where the player starts
FirstRoom ==
    /\ pc = "items"
    /\ items_left = 0
    /\ rooms = <<>>
    /\ objects' = [objects EXCEPT
                      ![PLAYER] = set_pos(@, center(new_room)[1], center(new_room)[2])]
    /\ rooms' = Append(rooms, new_room)
    /\ attempt' = attempt + 1
    /\ pc' = "loop"
    /\ new_room' = NoRoom
    /\ sample' = NoSample
    /\ touched' = {}
    /\ UNCHANGED <<map, monsters_left, items_left, level, args, ret>>

\* the tiles the two tunnel calls index, by the coin (lines 70-77)
tunnel(prev, new, coin) ==
    IF coin
    THEN create_h_tunnel(prev[1], new[1], prev[2])
            \cup create_v_tunnel(prev[2], new[2], new[1])
    ELSE create_v_tunnel(prev[2], new[2], prev[1])
            \cup create_h_tunnel(prev[1], new[1], new[2])

\* mutant: without `if rooms.is_empty()`, every room moves the player
ConnectRoom_moves_player ==
    /\ pc = "items"
    /\ items_left = 0
    /\ rooms # <<>>
    /\ \E coin \in BOOLEAN :
         LET cells == tunnel(center(rooms[Len(rooms)]), center(new_room), coin) IN
         /\ touched' = cells
         /\ map' = map \cup cells
         /\ rooms' = Append(rooms, new_room)
         /\ attempt' = attempt + 1
         /\ pc' = "loop"
    /\ objects' = [objects EXCEPT
                      ![PLAYER] = set_pos(@, center(new_room)[1], center(new_room)[2])]
    /\ new_room' = NoRoom
    /\ sample' = NoSample
    /\ UNCHANGED <<monsters_left, items_left, level, args, ret>>

\* lines 56-58 and 62-81: a later room is joined to the previous one
ConnectRoom ==
    /\ pc = "items"
    /\ items_left = 0
    /\ rooms # <<>>
    /\ \E coin \in BOOLEAN :
         LET cells == tunnel(center(rooms[Len(rooms)]), center(new_room), coin) IN
         /\ touched' = cells
         /\ IF \A c \in cells : InMap(c)
            THEN /\ map' = map \cup cells
                 /\ rooms' = Append(rooms, new_room)
                 /\ attempt' = attempt + 1
                 /\ pc' = "loop"
                 /\ new_room' = NoRoom
                 /\ sample' = NoSample
            ELSE /\ pc' = "panic_index"
                 /\ UNCHANGED <<map, rooms, attempt, new_room, sample>>
    /\ UNCHANGED <<objects, monsters_left, items_left, level, args, ret>>

\* lines 85-91: the loop is over; rooms[rooms.len() - 1] panics on no rooms
PlaceStairs ==
    /\ pc = "loop"
    /\ attempt = MAX_ROOMS
    /\ IF rooms = <<>>
       THEN /\ pc' = "panic_no_rooms"
            /\ UNCHANGED objects
       ELSE /\ objects' = Append(objects,
                                 Stairs(center(rooms[Len(rooms)])[1],
                                        center(rooms[Len(rooms)])[2]))
            /\ pc' = "done"
    /\ touched' = {}
    /\ UNCHANGED <<map, rooms, attempt, new_room, monsters_left, items_left,
                   level, sample, args, ret>>

Next ==
    \/ Truncate
    \/ RejectRoom
    \/ RejectRemaining
    \/ AcceptRoom
    \/ PlaceMonster
    \/ MonstersDone
    \/ PlaceItem
    \/ FirstRoom
    \/ ConnectRoom
    \/ PlaceStairs

Spec == Init /\ [][Next]_vars

(***************************************************************************)
(* make_map at level 0: from_dungeon_level gives 0 for every table, so     *)
(* place_objects draws num_monsters = num_items = 0 and its two loops,     *)
(* PlaceMonster and PlaceItem, are never entered.                          *)
(***************************************************************************)
InitLayout == Init /\ level = 0

NextLayout ==
    \/ Truncate
    \/ RejectRoom
    \/ RejectRemaining
    \/ AcceptRoom
    \/ MonstersDone
    \/ FirstRoom
    \/ ConnectRoom
    \/ PlaceStairs

SpecLayout == InitLayout /\ [][NextLayout]_vars

(***************************************************************************)
(* from_dungeon_level called on its own.                                   *)
(***************************************************************************)
\* thresholds, values and lengths of the tables drawn, and the levels
MaxThreshold == 3
MaxValue == 2
MaxTableLen == 2
MaxLookupLevel == 8

RECURSIVE SeqsUpTo(_, _)
SeqsUpTo(S, n) ==
    IF n = 0 THEN {<<>>}
    ELSE LET shorter == SeqsUpTo(S, n - 1)
         IN  shorter \cup {Append(t, e) : t \in shorter, e \in S}

\* the tables of place_objects and every table within the bounds
TableDraws ==
    {max_monsters_table, troll_chance_table, max_items_table,
     <<Transition(4, 25)>>, <<Transition(6, 25)>>, <<Transition(2, 10)>>,
     <<Transition(4, 5)>>, <<Transition(8, 15)>>}
    \cup SeqsUpTo({Transition(l, v) : l \in 0..MaxThreshold, v \in 1..MaxValue},
                  MaxTableLen)

InitLookup ==
    /\ pc = "call"
    /\ args \in TableDraws \X (0..MaxLookupLevel)
    /\ ret = 0
    /\ map = {}
    /\ objects = <<>>
    /\ rooms = <<>>
    /\ attempt = 0
    /\ new_room = NoRoom
    /\ monsters_left = 0
    /\ items_left = 0
    /\ level = 0
    /\ touched = {}
    /\ sample = NoSample

CallFromDungeonLevel ==
    /\ pc = "call"
    /\ ret' = from_dungeon_level(args[1], args[2])
    /\ pc' = "returned"
    /\ UNCHANGED <<map, objects, rooms, attempt, new_room, monsters_left,
                   items_left, level, touched, sample, args>>

SpecLookup == InitLookup /\ [][CallFromDungeonLevel]_vars

(***************************************************************************)
(* is_blocked called on its own, as the movement code calls it.            *)
(***************************************************************************)
\* length of the object lists drawn
MaxQueryObjects == 2

\* the tiles queried, carved and occupied: the corners of the map
QueryTiles == {0, MAP_WIDTH - 1} \X {0, MAP_HEIGHT - 1}

QueryObjects ==
    SeqsUpTo({ObjectNew(c[1], c[2], "o", "object", b) :
                 c \in QueryTiles, b \in BOOLEAN},
             MaxQueryObjects)

InitBlocked ==
    /\ pc = "call"
    /\ args \in QueryTiles
    /\ map \in SUBSET QueryTiles
    /\ objects \in QueryObjects
    /\ ret = FALSE
    /\ rooms = <<>>
    /\ attempt = 0
    /\ new_room = NoRoom
    /\ monsters_left = 0
    /\ items_left = 0
    /\ level = 0
    /\ touched = {}
    /\ sample = NoSample

CallIsBlocked ==
    /\ pc = "call"
    /\ ret' = is_blocked(args[1], args[2], map, objects)
    /\ pc' = "returned"
    /\ UNCHANGED <<map, objects, rooms, attempt, new_room, monsters_left,
                   items_left, level, touched, sample, args>>

SpecBlocked == InitBlocked /\ [][CallIsBlocked]_vars

(***************************************************************************)
(* Properties                                                              *)
(***************************************************************************)
\* the rooms accepted so far: those pushed and, once painted, the new one
AcceptedRooms ==
    IF pc \in {"monsters", "items"} THEN Append(rooms, new_room) ELSE rooms

\* the inclusive-edge test, as the specification words it
InclusiveEdgeTest(a, b) ==
    a.x1 <= b.x2 /\ a.x2 >= b.x1 /\ a.y1 <= b.y2 /\ a.y2 >= b.y1

\* the midpoint ((x1+x2)/2, (y1+y2)/2) of a room
Midpoint(r) == <<(r.x1 + r.x2) \div 2, (r.y1 + r.y2) \div 2>>

pos(o) == <<o.x, o.y>>

\* C1: at every point of a make_map call and on return, no two distinct
\* accepted rooms pass the inclusive-edge test: none overlap or share an edge
C1_AcceptedRoomsDisjoint ==
    \A i, j \in 1..Len(AcceptedRooms) :
        i # j => ~InclusiveEdgeTest(AcceptedRooms[i], AcceptedRooms[j])

\* three iterations gave two accepted rooms and one rejected proposal
C1_Witness ==
    /\ pc = "loop"
    /\ attempt = 3
    /\ Len(rooms) = 2

\* C2: once the first room is accepted and until make_map returns, element
\* PLAYER of objects is the entry's player, only moved, and stands at the
\* midpoint of the first accepted room; later rooms do not move it
C2_PlayerAtFirstRoomCenter ==
    rooms # <<>> =>
        /\ Len(objects) >= 1
        /\ \E e \in EntryObjects :
              objects[PLAYER] = set_pos(e[PLAYER], objects[PLAYER].x,
                                        objects[PLAYER].y)
        /\ pos(objects[PLAYER]) = Midpoint(rooms[1])

\* make_map returned after joining a second room whose center differs
C2_Witness ==
    /\ pc = "done"
    /\ Len(rooms) >= 2
    /\ Midpoint(rooms[Len(rooms)]) # Midpoint(rooms[1])
    /\ \A e \in EntryObjects : pos(objects[PLAYER]) # pos(e[PLAYER])

\* C3: when make_map returns, objects holds exactly one stairs entity, as
\* its last element, at the midpoint of the last accepted room, not blocking
\* and always visible
C3_StairsAtLastRoomCenter ==
    pc = "done" =>
        /\ rooms # <<>>
        /\ Cardinality({i \in 1..Len(objects) : objects[i].name = "stairs"}) = 1
        /\ objects[Len(objects)].name = "stairs"
        /\ pos(objects[Len(objects)]) = Midpoint(rooms[Len(rooms)])
        /\ ~objects[Len(objects)].blocks
        /\ objects[Len(objects)].always_visible

\* make_map returned with several rooms and with content placed before the
\* stairs
C3_Witness ==
    /\ pc = "done"
    /\ Len(rooms) >= 2
    /\ Len(objects) >= 3
    /\ Midpoint(rooms[Len(rooms)]) # Midpoint(rooms[1])

\* a spot is blocked: its tile is a wall, or a blocking object stands on it
SpotBlocked(c, tiles, objs) ==
    \/ c \notin tiles
    \/ \E i \in 1..Len(objs) : objs[i].blocks /\ pos(objs[i]) = c

StrictlyIncreasing(table) ==
    \A i, j \in 1..Len(table) : i < j => table[i].level < table[j].level

\* the value of the entry with the highest threshold <= lvl, 0 without one
HighestEntryValue(table, lvl) ==
    LET ok == {i \in 1..Len(table) : table[i].level <= lvl}
    IN  IF ok = {} THEN 0
        ELSE table[CHOOSE i \in ok :
                      \A j \in ok : table[j].level <= table[i].level].value

\* C5: for a table with strictly increasing thresholds from_dungeon_level
\* returns the value of the entry with the highest threshold <= level, or 0;
\* for [(1,2),(4,3),(6,5)]: 0 below 1, 2 in 1..3, 3 in 4..5, 5 from 6 on
C5_LookupHighestThreshold ==
    pc = "returned" =>
        /\ StrictlyIncreasing(args[1]) =>
              ret = HighestEntryValue(args[1], args[2])
        /\ args[1] = <<Transition(1, 2), Transition(4, 3), Transition(6, 5)>> =>
              ret = CASE args[2] < 1 -> 0
                      [] args[2] >= 1 /\ args[2] < 4 -> 2
                      [] args[2] >= 4 /\ args[2] < 6 -> 3
                      [] args[2] >= 6 -> 5

\* a lookup in a table of several increasing entries where a lower entry
\* qualifies too
C5_Witness ==
    /\ pc = "returned"
    /\ Len(args[1]) >= 2
    /\ StrictlyIncreasing(args[1])
    /\ args[1][2].level <= args[2]
    /\ ret = args[1][Len(args[1])].value
    /\ ret # args[1][1].value

\* C6: is_blocked returns true on a wall tile whatever the objects, true on
\* a passable tile where a blocking object stands, false otherwise, and
\* leaves the map and the objects as they are
C6_IsBlockedValue ==
    [][(pc = "call" /\ pc' = "returned")
       => /\ ret' = (\/ args \notin map
                     \/ \E i \in 1..Len(objects) :
                           objects[i].blocks /\ pos(objects[i]) = args)
          /\ map' = map
          /\ objects' = objects]_vars

\* a passable tile on which only a non-blocking object stands is not blocked
C6_Witness ==
    /\ pc = "returned"
    /\ ret = FALSE
    /\ args \in map
    /\ \E i \in 1..Len(objects) : pos(objects[i]) = args

RoomInBounds(r) ==
    /\ 0 <= r.x1 /\ r.x1 < r.x2 /\ r.x2 <= MAP_WIDTH - 1
    /\ 0 <= r.y1 /\ r.y1 < r.y2 /\ r.y2 <= MAP_HEIGHT - 1

\* C7: every room a make_map iteration can propose, and the one it is
\* working on, has 0 <= x1 < x2 <= MAP_WIDTH-1 and 0 <= y1 < y2 <=
\* MAP_HEIGHT-1, and every tile indexed by create_room, the tunnels and the
\* is_blocked calls of place_objects lies in the MAP_WIDTH x MAP_HEIGHT grid
C7_IndicesInGrid ==
    /\ pc = "start" =>
          \A w \in SizeRange, h \in SizeRange :
             \A x \in XRange(w), y \in YRange(h) :
                LET room == RectNew(x, y, w, h) IN
                /\ RoomInBounds(room)
                /\ \A i \in SpotXRange(room) : 0 <= i /\ i < MAP_WIDTH
                /\ \A j \in SpotYRange(room) : 0 <= j /\ j < MAP_HEIGHT
                /\ 0 <= center(room)[1] /\ center(room)[1] < MAP_WIDTH
                /\ 0 <= center(room)[2] /\ center(room)[2] < MAP_HEIGHT
    /\ \A d \in RoomDraws : RoomInBounds(DrawnRoom(d))
    /\ new_room # NoRoom => RoomInBounds(new_room)
    /\ \A r \in 1..Len(rooms) : RoomInBounds(rooms[r])
    /\ \A c \in touched \cup map :
          0 <= c[1] /\ c[1] < MAP_WIDTH /\ 0 <= c[2] /\ c[2] < MAP_HEIGHT
    /\ pc # "panic_index"

\* the greatest room in the far corner was painted and a spot sampled in it
C7_Witness ==
    /\ pc \in {"monsters", "items"}
    /\ new_room.x2 = MAP_WIDTH - 1
    /\ new_room.y2 = MAP_HEIGHT - 1
    /\ new_room.x2 - new_room.x1 = ROOM_MAX_SIZE
    /\ <<MAP_WIDTH - 2, MAP_HEIGHT - 2>> \in map
    /\ touched = {<<MAP_WIDTH - 2, MAP_HEIGHT - 2>>}

Neighbours(c) ==
    {<<c[1] + 1, c[2]>>, <<c[1] - 1, c[2]>>, <<c[1], c[2] + 1>>, <<c[1], c[2] - 1>>}

\* the passable tiles next to the frontier that were not seen before
Layer(seen, frontier, tiles) ==
    (UNION {Neighbours(c) : c \in frontier} \cap tiles) \ seen

\* breadth-first search, eight layers a call
RECURSIVE Flood(_, _, _)
Flood(seen, frontier, tiles) ==
    IF frontier = {} THEN seen
    ELSE LET n1 == Layer(seen, frontier, tiles)
             s1 == seen \cup n1
             n2 == Layer(s1, n1, tiles)
             s2 == s1 \cup n2
             n3 == Layer(s2, n2, tiles)
             s3 == s2 \cup n3
             n4 == Layer(s3, n3, tiles)
             s4 == s3 \cup n4
             n5 == Layer(s4, n4, tiles)
             s5 == s4 \cup n5
             n6 == Layer(s5, n5, tiles)
             s6 == s5 \cup n6
             n7 == Layer(s6, n6, tiles)
             s7 == s6 \cup n7
             n8 == Layer(s7, n7, tiles)
         IN  Flood(s7 \cup n8, n8, tiles)

\* the tiles a 4-neighbour path of passable tiles reaches from a tile
Reachable(from, tiles) ==
    IF from \in tiles THEN Flood({from}, {from}, tiles) ELSE {}

\* C8: after each room is accepted and when make_map returns, the centers of
\* the accepted rooms are passable and a 4-neighbour path of passable tiles
\* joins the first center to every other
C8_CentersConnected ==
    (pc \in {"loop", "done"} /\ rooms # <<>>) =>
        \A r \in 1..Len(rooms) :
            Midpoint(rooms[r]) \in Reachable(Midpoint(rooms[1]), map)

\* three rooms were joined, one to the left of and above its predecessor and
\* one to the right of and below it
C8_Witness ==
    /\ pc = "done"
    /\ Len(rooms) = 3
    /\ \E i \in 2..3 : /\ Midpoint(rooms[i])[1] < Midpoint(rooms[i - 1])[1]
                       /\ Midpoint(rooms[i])[2] < Midpoint(rooms[i - 1])[2]
    /\ \E i \in 2..3 : /\ Midpoint(rooms[i])[1] > Midpoint(rooms[i - 1])[1]
                       /\ Midpoint(rooms[i])[2] > Midpoint(rooms[i - 1])[2]

\* C9: the first iteration accepts its room, so from then on rooms is not
\* empty and the stairs step never indexes an empty rooms
C9_FirstRoomAccepted ==
    /\ attempt >= 1 => rooms # <<>>
    /\ pc = "done" => rooms # <<>>
    /\ pc # "panic_no_rooms"

\* make_map returned after MAX_ROOMS iterations of which only the first
\* accepted its room
C9_Witness ==
    /\ pc = "done"
    /\ attempt = MAX_ROOMS
    /\ Len(rooms) = 1

\* C10: when make_map returns, no two distinct blocking objects (the player
\* and the monsters placed) stand on the same tile
C10_BlockingObjectsApart ==
    pc = "done" =>
        \A i, j \in 1..Len(objects) :
            (i # j /\ objects[i].blocks /\ objects[j].blocks)
                => pos(objects[i]) # pos(objects[j])

====
